---- MODULE Spec2Model ----
(***************************************************************************)
(* A model of perfkitbenchmarker/providers/azure/azure_network.py: the     *)
(* per-run resource group singleton, the regional network topology         *)
(* (AzureNetwork) with its Create/Delete sequences, and the firewall rule  *)
(* bookkeeping of AzureNetworkSecurityGroup behind AzureFirewall.          *)
(*                                                                         *)
(* Code of the repository that azure_network.py calls but that lives in    *)
(* other files (resource.BaseResource, vm_util.Retry, the networks_lock of *)
(* the benchmark spec) is modelled from the specification's description    *)
(* and marked so where it is defined.                                      *)
(***************************************************************************)
EXTENDS Integers, Sequences, FiniteSets, TLC

(* ------------------------------ bounds -------------------------------- *)

\* Regional topologies (AzureNetwork instances) of one benchmark run.
NumZones == 2
\* Attempts vm_util.Retry() gives AzureNetwork.Create before it gives up.
MaxAttempts == 2

Zones == 1..NumZones

\* "No object": an unset attribute, a free lock, Python's None.
None == 0

(* --------------------------- program text ----------------------------- *)

\* The constructors that call GetResourceGroup while AzureNetwork.__init__
\* runs, in the order they run: AzureNetwork itself, AzureStorageAccount,
\* AzureVirtualNetwork, AzureSubnet, AzureNetworkSecurityGroup.
Holders == <<"network", "storage", "vnet", "subnet", "nsg">>

\* The resources a topology owns alone (the resource group is shared).
Kinds == {"storage", "vnet", "subnet", "nsg"}

\* AzureNetwork.Create, statement by statement.
CreateSeqSwapped == <<"group", "storage", "subnet", "vnet", "nsg", "attach">>
CreateSeq == <<"group", "storage", "vnet", "subnet", "nsg", "attach">>

Steps == {CreateSeq[j] : j \in 1..Len(CreateSeq)}

\* AzureNetwork.Delete, statement by statement.
DeleteSeqReversed == <<"nsg", "subnet", "vnet", "storage", "group">>
DeleteSeq == <<"subnet", "nsg", "vnet", "storage", "group">>

VARIABLES
  networks_lock,         \* holder (a zone) of spec.networks_lock, or None
  azure_resource_group,  \* spec.azure_resource_group: a group handle, or None
  num_groups,            \* AzureResourceGroup objects constructed so far
  vnet_lock,             \* holder of AzureVirtualNetwork.vnet_lock, or None
  num_vnets,             \* AzureVirtualNetwork.num_vnets
  ALL_NSGS,              \* the module-level registry of security groups
  net,                   \* per zone: the AzureNetwork object and its thread
  created,               \* handles whose BaseResource.created flag is set
  az,                    \* what exists on the provider side
  hist,                  \* commands issued so far (history, not program state)
  rules,                 \* per security group: self.rules, (start, end) -> name
  have_deny_all_rule,    \* per security group: self.have_deny_all_rule
  rules_lock,            \* per security group: holder of self.rules_lock, or None
  fw,                    \* per caller thread: the firewall call it is in
  azr,                   \* per security group: the rules at the provider
  fh,                    \* rule commands issued so far (history)
  calls                  \* per caller thread: firewall calls made so far

netVars == <<networks_lock, azure_resource_group, num_groups, vnet_lock,
             num_vnets, ALL_NSGS, net, created, az, hist>>

fwVars == <<rules, have_deny_all_rule, rules_lock, fw, azr, fh, calls>>

vars == <<netVars, fwVars>>

(* ------------------------------ handles ------------------------------- *)

\* A handle is <<"group", g>> for the g-th AzureResourceGroup object, or
\* <<k, z>> for zone z's resource of kind k.
GroupOf(z) == <<"group", net[z].rg["network"]>>

HandleOf(z, k) == IF k = "group" THEN GroupOf(z) ELSE <<k, z>>

\* What a create command needs to find on the provider side to succeed.
Prerequisites(z, k) ==
  CASE k = "group"   -> TRUE
    [] k = "storage" -> az.group
    [] k = "vnet"    -> az.group
    [] k = "subnet"  -> az.group /\ <<"vnet", z>> \in az.res
    [] k = "nsg"     -> az.group
    [] k = "attach"  -> az.group /\ <<"subnet", z>> \in az.res
                                 /\ <<"nsg", z>> \in az.res

(* ------------------------------- Init --------------------------------- *)

NetInit ==
  /\ networks_lock = None
  /\ azure_resource_group = None
  /\ num_groups = 0
  /\ vnet_lock = None
  /\ num_vnets = 0
  /\ ALL_NSGS = {}
  /\ net = [z \in Zones |->
              [pc |-> "new", i |-> 0, tries |-> 0, vnet_num |-> None,
               rg |-> [h \in {Holders[j] : j \in 1..Len(Holders)} |-> None]]]
  /\ created = {}
  /\ az = [group |-> FALSE, res |-> {}]
  /\ hist = [issued |-> [c \in Zones \X Steps |-> 0],
             ok |-> [c \in Zones \X Steps |-> 0],
             deleted |-> {},
             group_deletes |-> 0,
             orderly |-> TRUE]

(* ------------------- GetResourceGroup and __init__ -------------------- *)

SetNet(z, r) == net' = [net EXCEPT ![z] = r]

\* Where AzureNetwork.__init__ goes on once the GetResourceGroup call of its
\* i-th holder has returned: the next constructor's call, the address-space
\* counter of AzureVirtualNetwork, or ALL_NSGS.add at the end.
AfterGet(i) ==
  CASE i = 3 -> [pc |-> "v_acq", i |-> 3]
    [] i = 5 -> [pc |-> "register", i |-> 5]
    [] OTHER -> [pc |-> "g_try", i |-> i + 1]

Returned(z, group) ==
  LET n == AfterGet(net[z].i) IN
  SetNet(z, [net[z] EXCEPT !.rg[Holders[net[z].i]] = group,
                           !.pc = n.pc, !.i = n.i])

\* The benchmark spec constructs a network with spec.networks_lock held
\* (the lock the comment in GetResourceGroup relies on).
NetworksLockAcquire(z) ==
  /\ net[z].pc = "new"
  /\ networks_lock = None
  /\ networks_lock' = z
  /\ SetNet(z, [net[z] EXCEPT !.pc = "g_try", !.i = 1])
  /\ UNCHANGED <<fwVars, azure_resource_group, num_groups, vnet_lock, num_vnets,
                 ALL_NSGS, created, az, hist>>

\* try: return spec.azure_resource_group / except AttributeError
GetResourceGroupTry(z) ==
  /\ net[z].pc = "g_try"
  /\ IF azure_resource_group # None
       THEN Returned(z, azure_resource_group)
       ELSE SetNet(z, [net[z] EXCEPT !.pc = "g_new"])
  /\ UNCHANGED <<fwVars, networks_lock, azure_resource_group, num_groups, vnet_lock,
                 num_vnets, ALL_NSGS, created, az, hist>>

\* The except branch: a new AzureResourceGroup, stored on the spec.
NewGroupNotStored(n) == [group |-> n + 1, attr |-> None]
NewGroup(n) == [group |-> n + 1, attr |-> n + 1]

GetResourceGroupNew(z) ==
  /\ net[z].pc = "g_new"
  /\ LET new == NewGroup(num_groups) IN
       /\ num_groups' = new.group
       /\ azure_resource_group' = new.attr
       /\ Returned(z, new.group)
  /\ UNCHANGED <<fwVars, networks_lock, vnet_lock, num_vnets, ALL_NSGS, created, az,
                 hist>>

\* The with statement entered without waiting for the lock.
VnetLockAcquireUnguarded(z) ==
  /\ net[z].pc = "v_acq"
  /\ vnet_lock' = z
  /\ SetNet(z, [net[z] EXCEPT !.pc = "v_read"])
  /\ UNCHANGED <<fwVars, networks_lock, azure_resource_group, num_groups, num_vnets,
                 ALL_NSGS, created, az, hist>>

\* AzureVirtualNetwork.__init__: with self.vnet_lock: ...
VnetLockAcquire(z) ==
  /\ net[z].pc = "v_acq"
  /\ vnet_lock = None
  /\ vnet_lock' = z
  /\ SetNet(z, [net[z] EXCEPT !.pc = "v_read"])
  /\ UNCHANGED <<fwVars, networks_lock, azure_resource_group, num_groups, num_vnets,
                 ALL_NSGS, created, az, hist>>

VnetReadCounter(z) ==
  /\ net[z].pc = "v_read"
  /\ SetNet(z, [net[z] EXCEPT !.vnet_num = num_vnets, !.pc = "v_incr"])
  /\ UNCHANGED <<fwVars, networks_lock, azure_resource_group, num_groups, vnet_lock,
                 num_vnets, ALL_NSGS, created, az, hist>>

VnetIncrCounter(z) ==
  /\ net[z].pc = "v_incr"
  /\ num_vnets' = num_vnets + 1
  /\ vnet_lock' = None
  /\ SetNet(z, [net[z] EXCEPT !.pc = "g_try", !.i = 4])
  /\ UNCHANGED <<fwVars, networks_lock, azure_resource_group, num_groups, ALL_NSGS,
                 created, az, hist>>

\* ALL_NSGS.add(self.nsg), the last statement of AzureNetwork.__init__.
RegisterNsg(z) ==
  /\ net[z].pc = "register"
  /\ ALL_NSGS' = ALL_NSGS \cup {z}
  /\ SetNet(z, [net[z] EXCEPT !.pc = "release"])
  /\ UNCHANGED <<fwVars, networks_lock, azure_resource_group, num_groups, vnet_lock,
                 num_vnets, created, az, hist>>

NetworksLockRelease(z) ==
  /\ net[z].pc = "release"
  /\ networks_lock' = None
  /\ SetNet(z, [net[z] EXCEPT !.pc = "built"])
  /\ UNCHANGED <<fwVars, azure_resource_group, num_groups, vnet_lock, num_vnets,
                 ALL_NSGS, created, az, hist>>

Construct(z) ==
  \/ NetworksLockAcquire(z)
  \/ GetResourceGroupTry(z)
  \/ GetResourceGroupNew(z)
  \/ VnetLockAcquire(z)
  \/ VnetReadCounter(z)
  \/ VnetIncrCounter(z)
  \/ RegisterNsg(z)
  \/ NetworksLockRelease(z)

(* ------------------- BaseResource.Create and Delete ------------------- *)

constructVars == <<networks_lock, azure_resource_group, num_groups, vnet_lock,
                   num_vnets, ALL_NSGS>>

Bump(f, c) == [f EXCEPT ![c] = @ + 1]

\* The statement of AzureNetwork.Create that follows statement i.
NextCreate(i) ==
  [pc |-> IF CreateSeq[i + 1] = "attach" THEN "c_attach" ELSE "c_check",
   i |-> i + 1]

\* An exception leaves AzureNetwork.Create: vm_util.Retry() runs Create again
\* from its first statement, until its attempts are used up.
Raise(z) ==
  IF net[z].tries < MaxAttempts
    THEN SetNet(z, [net[z] EXCEPT !.pc = "c_check", !.i = 1, !.tries = @ + 1])
    ELSE SetNet(z, [net[z] EXCEPT !.pc = "create_failed"])

\* A thread calls Create on each network once it is built.
CreateStart(z) ==
  /\ net[z].pc = "built"
  /\ SetNet(z, [net[z] EXCEPT !.pc = "c_check", !.i = 1, !.tries = 1])
  /\ UNCHANGED <<fwVars, constructVars, created, az, hist>>

\* BaseResource.Create: nothing to do on a handle already created.
ResourceCreateCheck(z) ==
  /\ net[z].pc = "c_check"
  /\ LET n == NextCreate(net[z].i) IN
       IF HandleOf(z, CreateSeq[net[z].i]) \in created
         THEN SetNet(z, [net[z] EXCEPT !.pc = n.pc, !.i = n.i])
         ELSE SetNet(z, [net[z] EXCEPT !.pc = "c_issue"])
  /\ UNCHANGED <<fwVars, constructVars, created, az, hist>>

\* What the handle does with the provider's answer to its create command:
\* AzureResourceGroup._Create raises on a non-zero exit code, and the flag
\* is set only after the operation reported success.
CreateReportsIgnoringRetcode(ok) == TRUE
CreateReports(ok) == ok

\* _Create: the provider's create command, then the created flag.
ResourceCreateIssue(z) ==
  /\ net[z].pc = "c_issue"
  /\ LET k == CreateSeq[net[z].i]
         n == NextCreate(net[z].i)
     IN \E ok \in BOOLEAN :
       /\ ok => Prerequisites(z, k)
       /\ hist' = [hist EXCEPT !.issued = Bump(@, <<z, k>>),
                               !.ok = IF ok THEN Bump(@, <<z, k>>) ELSE @]
       /\ az' = IF ~ok THEN az
                ELSE IF k = "group" THEN [az EXCEPT !.group = TRUE]
                ELSE [az EXCEPT !.res = @ \cup {<<k, z>>}]
       /\ IF CreateReports(ok)
            THEN /\ created' = created \cup {HandleOf(z, k)}
                 /\ SetNet(z, [net[z] EXCEPT
                                 !.pc = IF k = "storage" THEN "c_post" ELSE n.pc,
                                 !.i = IF k = "storage" THEN @ ELSE n.i])
            ELSE /\ created' = created
                 /\ Raise(z)
  /\ UNCHANGED <<fwVars, constructVars>>

\* AzureStorageAccount._PostCreate: two retryable commands (connection
\* string, keys); either may exhaust its attempts and raise.
StoragePostCreate(z) ==
  /\ net[z].pc = "c_post"
  /\ LET n == NextCreate(net[z].i) IN
       \E ok \in BOOLEAN :
         IF ok THEN SetNet(z, [net[z] EXCEPT !.pc = n.pc, !.i = n.i])
               ELSE Raise(z)
  /\ UNCHANGED <<fwVars, constructVars, created, az, hist>>

\* AzureNetworkSecurityGroup.AttachToSubnet: one retryable command.
AttachToSubnet(z) ==
  /\ net[z].pc = "c_attach"
  /\ \E ok \in BOOLEAN :
       /\ ok => Prerequisites(z, "attach")
       /\ hist' = [hist EXCEPT !.issued = Bump(@, <<z, "attach">>),
                               !.ok = IF ok THEN Bump(@, <<z, "attach">>) ELSE @]
       /\ IF ok THEN SetNet(z, [net[z] EXCEPT !.pc = "created"])
               ELSE Raise(z)
  /\ UNCHANGED <<fwVars, constructVars, created, az>>

\* The Create call of zone y's network has returned or raised for good.
Provisioned(y) == net[y].pc \in {"created", "create_failed", "d_issue", "deleted"}

\* A thread calls Delete on each network when the run is torn down, whether
\* its Create succeeded or gave up.
DeleteStart(z) ==
  /\ net[z].pc \in {"created", "create_failed"}
  /\ SetNet(z, [net[z] EXCEPT !.pc = "d_issue", !.i = 1])
  /\ hist' = [hist EXCEPT !.orderly = @ /\ \A y \in Zones : Provisioned(y)]
  /\ UNCHANGED <<fwVars, constructVars, created, az>>

\* A Delete that raises when the provider finds nothing to delete.
ResourceDeleteStrict(z) ==
  /\ net[z].pc = "d_issue"
  /\ LET k == DeleteSeq[net[z].i]
         found == IF k = "group" THEN az.group ELSE <<k, z>> \in az.res
     IN
       /\ az' = IF k = "group"
                  THEN [group |-> FALSE, res |-> {}]
                  ELSE [az EXCEPT !.res = @ \ {<<k, z>>}]
       /\ hist' = [hist EXCEPT
                    !.deleted = @ \cup {<<z, k>>},
                    !.group_deletes = IF k = "group" /\ az.group
                                        THEN @ + 1 ELSE @]
       /\ IF ~found
            THEN SetNet(z, [net[z] EXCEPT !.pc = "delete_failed"])
          ELSE IF net[z].i < Len(DeleteSeq)
            THEN SetNet(z, [net[z] EXCEPT !.i = @ + 1])
            ELSE SetNet(z, [net[z] EXCEPT !.pc = "deleted"])
  /\ UNCHANGED <<fwVars, constructVars, created>>

\* _Delete: the provider's delete command; its exit code is not looked at,
\* so a command that finds nothing to delete changes nothing and raises
\* nothing. Deleting the group removes what the group holds.
ResourceDelete(z) ==
  /\ net[z].pc = "d_issue"
  /\ LET k == DeleteSeq[net[z].i] IN
       /\ az' = IF k = "group"
                  THEN [group |-> FALSE, res |-> {}]
                  ELSE [az EXCEPT !.res = @ \ {<<k, z>>}]
       /\ hist' = [hist EXCEPT
                    !.deleted = @ \cup {<<z, k>>},
                    !.group_deletes = IF k = "group" /\ az.group
                                        THEN @ + 1 ELSE @]
       /\ IF net[z].i < Len(DeleteSeq)
            THEN SetNet(z, [net[z] EXCEPT !.i = @ + 1])
            ELSE SetNet(z, [net[z] EXCEPT !.pc = "deleted"])
  /\ UNCHANGED <<fwVars, constructVars, created>>

Lifecycle(z) ==
  \/ CreateStart(z)
  \/ ResourceCreateCheck(z)
  \/ ResourceCreateIssue(z)
  \/ StoragePostCreate(z)
  \/ AttachToSubnet(z)
  \/ DeleteStart(z)
  \/ ResourceDelete(z)



(* ----------------- AzureNetworkSecurityGroup rules ------------------- *)

\* Caller threads (one per VM being provisioned or torn down).
NumVMs == 2
\* Firewall calls one caller thread makes.
MaxCalls == 2
\* Ports callers ask for: start_port in 1..MaxPort, end_port from start_port
\* to MaxPort or not given.
MaxPort == 2

VMs == 1..NumVMs

\* 100 + len(self.rules)
FirstPriority == 100
\* The priority reserved for the DenyAll rule.
DenyAllPriority == 4095

\* The name of the rule DisallowAllPorts creates, written as rule names are.
DenyAllName == <<"DenyAll", None, None>>

\* end_port = end_port or start_port
EndPort(start_port, end_port) ==
  IF end_port = None THEN start_port ELSE end_port

\* rule_name = 'allow-%s-%s' % (start_port, end_port)
RuleName(key) == <<"allow", key[1], key[2]>>

\* if (start_port, end_port) in self.rules
InRulesNever(key, table) == FALSE
InRules(key, table) == key \in DOMAIN table

\* rule_priority = 100 + len(self.rules)
RulePriorityFromOne(table) == FirstPriority + Cardinality(DOMAIN table) + 1
RulePriority(table) == FirstPriority + Cardinality(DOMAIN table)

\* if rule_priority >= 4095: raise ValueError
TooManyOffByOne(rule_priority) == rule_priority > DenyAllPriority
TooMany(rule_priority) == rule_priority >= DenyAllPriority

\* self.rules[(start_port, end_port)] = rule_name
Inserted(table, key) ==
  [k \in DOMAIN table \cup {key} |-> IF k = key THEN RuleName(key) ELSE table[k]]

\* self.rules = {}
ClearedRulesKept(table) == table
ClearedRules(table) == <<>>

Idle == [pc |-> "idle", nsg |-> None, start_port |-> None, end_port |-> None,
         rule_priority |-> None, todo |-> {}, iter |-> {}, size |-> 0]

\* AzureNetwork.__init__ has returned: vm.network.nsg can be reached.
Built(z) ==
  net[z].pc \notin {"new", "g_try", "g_new", "v_acq", "v_read", "v_incr",
                    "register", "release"}

FwInit ==
  /\ rules = [z \in Zones |-> <<>>]
  /\ have_deny_all_rule = [z \in Zones |-> FALSE]
  /\ rules_lock = [z \in Zones |-> None]
  /\ fw = [t \in VMs |-> Idle]
  /\ azr = [z \in Zones |-> {}]
  /\ fh = [creates |-> [z \in Zones |-> <<>>],
           requested |-> [z \in Zones |-> {}],
           dups |-> [z \in Zones |-> {}],
           too_many |-> [z \in Zones |-> FALSE],
           set_changed |-> 0,
           deletes |-> [z \in Zones |-> 0],
           denies |-> [z \in Zones |-> 0],
           closed |-> [z \in Zones |-> 0]]
  /\ calls = [t \in VMs |-> 0]

SetFw(t, r) == fw' = [fw EXCEPT ![t] = r]

\* The call of thread t has ended: it returned, or an exception left it.
Ended(t) == SetFw(t, Idle)

Key(t) == <<fw[t].start_port, fw[t].end_port>>

\* One more issue of the command f counts under x.
BumpAt(f, x) ==
  IF x \in DOMAIN f THEN [f EXCEPT ![x] = @ + 1]
  ELSE [y \in DOMAIN f \cup {x} |-> IF y = x THEN 1 ELSE f[y]]

\* AzureFirewall.AllowPort: vm.network.nsg.AllowPort(vm, start_port, ...)
AllowPort(t, z, start_port, end_port) ==
  /\ fw[t].pc = "idle"
  /\ Built(z)
  /\ SetFw(t, [fw[t] EXCEPT !.pc = "a_lock", !.nsg = z,
                            !.start_port = start_port, !.end_port = end_port])
  /\ fh' = [fh EXCEPT !.requested[z] =
                        @ \cup {<<start_port, EndPort(start_port, end_port)>>}]
  /\ UNCHANGED <<netVars, rules, have_deny_all_rule, rules_lock, azr>>

\* with self.rules_lock:
AllowPortLock(t) ==
  /\ fw[t].pc = "a_lock"
  /\ rules_lock[fw[t].nsg] = None
  /\ rules_lock' = [rules_lock EXCEPT ![fw[t].nsg] = t]
  /\ SetFw(t, [fw[t] EXCEPT !.pc = "a_crit"])
  /\ UNCHANGED <<netVars, rules, have_deny_all_rule, azr, fh, calls>>

\* The body of the with statement writing to one table that all security
\* groups share.
AllowPortLockedShared(t) ==
  /\ fw[t].pc = "a_crit"
  /\ LET n == fw[t].nsg
         key == <<fw[t].start_port, EndPort(fw[t].start_port, fw[t].end_port)>>
         rule_priority == RulePriority(rules[n])
     IN /\ rules_lock' = [rules_lock EXCEPT ![n] = None]
        /\ IF InRules(key, rules[n])
             THEN /\ Ended(t)
                  /\ fh' = [fh EXCEPT !.dups[n] = @ \cup {key}]
                  /\ rules' = rules
           ELSE IF TooMany(rule_priority)
             THEN /\ Ended(t)
                  /\ fh' = [fh EXCEPT !.too_many[n] = TRUE]
                  /\ rules' = rules
           ELSE /\ rules' = [m \in Zones |-> Inserted(rules[m], key)]
                /\ SetFw(t, [fw[t] EXCEPT !.pc = "a_issue", !.end_port = key[2],
                                          !.rule_priority = rule_priority])
                /\ fh' = [fh EXCEPT !.closed[n] = 0]
  /\ UNCHANGED <<netVars, have_deny_all_rule, azr, calls>>

\* The body of the with statement, which ends by releasing the lock: a
\* return for a range already in the table, ValueError when the priorities
\* are used up, or the new table entry.
AllowPortLocked(t) ==
  /\ fw[t].pc = "a_crit"
  /\ LET n == fw[t].nsg
         key == <<fw[t].start_port, EndPort(fw[t].start_port, fw[t].end_port)>>
         rule_priority == RulePriority(rules[n])
     IN /\ rules_lock' = [rules_lock EXCEPT ![n] = None]
        /\ IF InRules(key, rules[n])
             THEN /\ Ended(t)
                  /\ fh' = [fh EXCEPT !.dups[n] = @ \cup {key}]
                  /\ rules' = rules
           ELSE IF TooMany(rule_priority)
             THEN /\ Ended(t)
                  /\ fh' = [fh EXCEPT !.too_many[n] = TRUE]
                  /\ rules' = rules
           ELSE /\ rules' = [rules EXCEPT ![n] = Inserted(@, key)]
                /\ SetFw(t, [fw[t] EXCEPT !.pc = "a_issue", !.end_port = key[2],
                                          !.rule_priority = rule_priority])
                /\ fh' = [fh EXCEPT !.closed[n] = 0]
  /\ UNCHANGED <<netVars, have_deny_all_rule, azr, calls>>

\* vm_util.IssueRetryableCommand([... 'nsg', 'rule', 'create', rule_name,
\* '--priority', str(rule_priority)]): the rule exists at the provider when
\* the command succeeds; when it runs out of attempts the exception leaves
\* AllowPort.
IssueRuleCreate(t, ok) ==
  /\ fw[t].pc = "a_issue"
  /\ LET n == fw[t].nsg
         rule == [name |-> RuleName(Key(t)), priority |-> fw[t].rule_priority]
     IN /\ fh' = [fh EXCEPT !.creates[n] = BumpAt(@, rule)]
        /\ IF ok THEN /\ azr' = [azr EXCEPT ![n] =
                                 {r \in @ : r.name # rule.name} \cup {rule}]
                      /\ Ended(t)
                 ELSE /\ azr' = azr
                      /\ Ended(t)
  /\ UNCHANGED <<netVars, rules, have_deny_all_rule, rules_lock, calls>>

AllowPortIssue(t) == \E ok \in BOOLEAN : IssueRuleCreate(t, ok)

\* AzureFirewall.DisallowAllPorts: for nsg in ALL_NSGS
DisallowAllPorts(t) ==
  /\ fw[t].pc = "idle"
  /\ SetFw(t, [fw[t] EXCEPT !.pc = "b_next", !.iter = ALL_NSGS,
                            !.size = Cardinality(ALL_NSGS)])
  /\ UNCHANGED <<netVars, rules, have_deny_all_rule, rules_lock, azr, fh>>

\* A loop over the security groups that were registered when it began,
\* whatever is registered since.
NextNsgOfSnapshot(t) ==
  /\ fw[t].pc = "b_next"
  /\ IF fw[t].iter = {} THEN Ended(t)
     ELSE \E n \in fw[t].iter :
            SetFw(t, [fw[t] EXCEPT !.pc = "d_lock", !.nsg = n,
                                   !.iter = @ \ {n}])
  /\ UNCHANGED <<netVars, rules, have_deny_all_rule, rules_lock, azr, fh,
                 calls>>

\* The set iterator's next(): RuntimeError when the set changed size since
\* the loop began, the end of the loop, or the next security group.
NextNsg(t) ==
  /\ fw[t].pc = "b_next"
  /\ IF Cardinality(ALL_NSGS) # fw[t].size
       THEN /\ Ended(t)
            /\ fh' = [fh EXCEPT !.set_changed = @ + 1]
     ELSE IF fw[t].iter = {}
       THEN /\ Ended(t)
            /\ fh' = fh
     ELSE /\ \E n \in fw[t].iter :
               SetFw(t, [fw[t] EXCEPT !.pc = "d_lock", !.nsg = n,
                                      !.iter = @ \ {n}])
          /\ fh' = fh
  /\ UNCHANGED <<netVars, rules, have_deny_all_rule, rules_lock, azr, calls>>

\* DisallowAllPorts going into its loop without the lock.
DisallowLockFree(t) ==
  /\ fw[t].pc = "d_lock"
  /\ SetFw(t, [fw[t] EXCEPT !.pc = "d_loop", !.todo = DOMAIN rules[fw[t].nsg]])
  /\ UNCHANGED <<netVars, rules, have_deny_all_rule, rules_lock, azr, fh, calls>>

\* AzureNetworkSecurityGroup.DisallowAllPorts: with self.rules_lock, and the
\* iterator over self.rules.
DisallowLock(t) ==
  /\ fw[t].pc = "d_lock"
  /\ rules_lock[fw[t].nsg] = None
  /\ rules_lock' = [rules_lock EXCEPT ![fw[t].nsg] = t]
  /\ SetFw(t, [fw[t] EXCEPT !.pc = "d_loop", !.todo = DOMAIN rules[fw[t].nsg]])
  /\ UNCHANGED <<netVars, rules, have_deny_all_rule, azr, fh, calls>>

\* One pass of the for loop: the delete command of one rule. When it runs
\* out of attempts the exception leaves the with statement, and the loop
\* of AzureFirewall.DisallowAllPorts.
DisallowDeleteRule(t) ==
  /\ fw[t].pc = "d_loop"
  /\ fw[t].todo # {}
  /\ LET n == fw[t].nsg IN
     \E key \in fw[t].todo :
        /\ fh' = [fh EXCEPT !.deletes[n] = @ + 1]
        /\ \E ok \in BOOLEAN :
             IF ok THEN /\ azr' = [azr EXCEPT ![n] =
                                 {r \in @ : r.name # rules[n][key]}]
                        /\ SetFw(t, [fw[t] EXCEPT !.todo = @ \ {key}])
                        /\ rules_lock' = rules_lock
                   ELSE /\ azr' = azr
                        /\ Ended(t)
                        /\ rules_lock' = [rules_lock EXCEPT ![n] = None]
  /\ UNCHANGED <<netVars, rules, have_deny_all_rule, calls>>

\* self.rules = {} going on to the DenyAll command whatever the flag says.
DisallowClearIgnoringFlag(t) ==
  /\ fw[t].pc = "d_loop"
  /\ fw[t].todo = {}
  /\ rules' = [rules EXCEPT ![fw[t].nsg] = ClearedRules(@)]
  /\ SetFw(t, [fw[t] EXCEPT !.pc = "d_deny"])
  /\ UNCHANGED <<netVars, have_deny_all_rule, rules_lock, azr, fh, calls>>

\* After the loop: self.rules = {}, and the return when the DenyAll rule is
\* already there.
DisallowClear(t) ==
  /\ fw[t].pc = "d_loop"
  /\ fw[t].todo = {}
  /\ LET n == fw[t].nsg IN
       /\ rules' = [rules EXCEPT ![n] = ClearedRules(@)]
       /\ IF have_deny_all_rule[n]
            THEN /\ rules_lock' = [rules_lock EXCEPT ![n] = None]
                 /\ SetFw(t, [fw[t] EXCEPT !.pc = "b_next"])
                 /\ fh' = [fh EXCEPT !.closed[n] = @ + 1]
            ELSE /\ rules_lock' = rules_lock
                 /\ SetFw(t, [fw[t] EXCEPT !.pc = "d_deny"])
                 /\ fh' = fh
  /\ UNCHANGED <<netVars, have_deny_all_rule, azr, calls>>

\* The DenyAll rule at priority 4095, then self.have_deny_all_rule = True.
DisallowDenyAll(t) ==
  /\ fw[t].pc = "d_deny"
  /\ LET n == fw[t].nsg IN
     \E ok \in BOOLEAN :
       IF ok
         THEN /\ azr' = [azr EXCEPT ![n] = {r \in @ : r.name # DenyAllName} \cup
                          {[name |-> DenyAllName, priority |-> DenyAllPriority]}]
              /\ have_deny_all_rule' = [have_deny_all_rule EXCEPT ![n] = TRUE]
              /\ SetFw(t, [fw[t] EXCEPT !.pc = "b_next"])
              /\ fh' = [fh EXCEPT !.denies[n] = @ + 1, !.closed[n] = @ + 1]
              /\ rules_lock' = [rules_lock EXCEPT ![n] = None]
         ELSE /\ UNCHANGED <<azr, have_deny_all_rule>>
              /\ Ended(t)
              /\ fh' = [fh EXCEPT !.denies[n] = @ + 1]
              /\ rules_lock' = [rules_lock EXCEPT ![n] = None]
  /\ UNCHANGED <<netVars, rules, calls>>

\* A firewall call in progress goes on.
FirewallStep(t) ==
  \/ AllowPortLock(t)
  \/ AllowPortLocked(t)
  \/ AllowPortIssue(t)
  \/ NextNsg(t)
  \/ DisallowLock(t)
  \/ DisallowDeleteRule(t)
  \/ DisallowClear(t)
  \/ DisallowDenyAll(t)

(* --------------------------- specifications --------------------------- *)

Init == NetInit /\ FwInit

\* The run once AzureNetwork.__init__ has returned for every zone, zone 1
\* first: one resource group, one address space and one registered security
\* group per zone.
BuiltNet ==
  /\ networks_lock = None
  /\ azure_resource_group = 1
  /\ num_groups = 1
  /\ vnet_lock = None
  /\ num_vnets = NumZones
  /\ ALL_NSGS = Zones
  /\ net = [z \in Zones |->
              [pc |-> "built", i |-> 5, tries |-> 0, vnet_num |-> z - 1,
               rg |-> [h \in {Holders[j] : j \in 1..Len(Holders)} |-> 1]]]
  /\ created = {}
  /\ az = [group |-> FALSE, res |-> {}]
  /\ hist = [issued |-> [c \in Zones \X Steps |-> 0],
             ok |-> [c \in Zones \X Steps |-> 0],
             deleted |-> {},
             group_deletes |-> 0,
             orderly |-> TRUE]

BuiltInit == BuiltNet /\ FwInit

\* The networks of a run: built, created and deleted, each by its thread.
NetNext == \E z \in Zones : Construct(z) \/ Lifecycle(z)

SpecNet == Init /\ [][NetNext]_vars

\* The firewall of a run whose networks are built: VM threads open ports and
\* close them all, each thread making MaxCalls calls.
Budget(t) ==
  /\ calls[t] < MaxCalls
  /\ calls' = [calls EXCEPT ![t] = @ + 1]

FwNext ==
  \/ \E t \in VMs, z \in Zones, start_port \in 1..MaxPort :
       \E end_port \in {None} \cup start_port..MaxPort :
         AllowPort(t, z, start_port, end_port) /\ Budget(t)
  \/ \E t \in VMs : DisallowAllPorts(t) /\ Budget(t)
  \/ \E t \in VMs : FirewallStep(t)

SpecFw == BuiltInit /\ [][FwNext]_vars

\* One security group at the two ends of its range of priorities. One
\* caller on the security group of zone 1 asks, call after call, for port 1
\* again or for the lowest port not yet asked for, so that the k-th distinct
\* range is (k, k); the provider accepts every command. The run starts with
\* an empty table, or with the table as CapSlack fewer calls than the
\* priorities 100..4094 allow have left it, and makes CapCalls calls.
CapSlack == 2
CapCalls == 6

\* The number of priorities from 100 up to, not including, 4095.
Capacity == DenyAllPriority - FirstPriority

\* self.rules after ports 1..m were opened one after another.
FilledTable(m) == [key \in {<<k, k>> : k \in 1..m} |-> RuleName(key)]

\* The rules those m calls created at the provider.
FilledRules(m) ==
  {[name |-> RuleName(<<k, k>>), priority |-> FirstPriority + (k - 1)] :
     k \in 1..m}

CapInit ==
  /\ BuiltNet
  /\ \E m \in {0, Capacity - CapSlack} :
       /\ rules = [z \in Zones |-> IF z = 1 THEN FilledTable(m) ELSE <<>>]
       /\ azr = [z \in Zones |-> IF z = 1 THEN FilledRules(m) ELSE {}]
       /\ fh = [creates |-> [z \in Zones |->
                               IF z = 1 THEN [r \in FilledRules(m) |-> 1]
                               ELSE <<>>],
                requested |-> [z \in Zones |->
                                 IF z = 1 THEN DOMAIN FilledTable(m) ELSE {}],
                dups |-> [z \in Zones |-> {}],
                too_many |-> [z \in Zones |-> FALSE],
                set_changed |-> 0,
                deletes |-> [z \in Zones |-> 0],
                denies |-> [z \in Zones |-> 0],
                closed |-> [z \in Zones |-> 0]]
  /\ have_deny_all_rule = [z \in Zones |-> FALSE]
  /\ rules_lock = [z \in Zones |-> None]
  /\ fw = [t \in VMs |-> Idle]
  /\ calls = [t \in VMs |-> 0]

CapNext ==
  \/ \E start_port \in {1, Cardinality(DOMAIN rules[1]) + 1} :
       /\ calls[1] < CapCalls
       /\ calls' = [calls EXCEPT ![1] = @ + 1]
       /\ AllowPort(1, 1, start_port, None)
  \/ AllowPortLock(1)
  \/ AllowPortLocked(1)
  \/ IssueRuleCreate(1, TRUE)

SpecCap == CapInit /\ [][CapNext]_vars

\* The constructors of the networks running side by side: azure_network.py
\* takes no lock around AzureNetwork.__init__ itself, so here each zone's
\* thread enters the constructor without spec.networks_lock and only the
\* locks the file takes (vnet_lock) order the threads.
UnlockedInit ==
  /\ NetInit
  /\ FwInit

EnterInit(z) ==
  /\ net[z].pc = "new"
  /\ SetNet(z, [net[z] EXCEPT !.pc = "g_try", !.i = 1])
  /\ UNCHANGED <<fwVars, constructVars, created, az, hist>>

UnlockedNext ==
  \E z \in Zones :
    \/ EnterInit(z)
    \/ GetResourceGroupTry(z)
    \/ GetResourceGroupNew(z)
    \/ VnetLockAcquire(z)
    \/ VnetReadCounter(z)
    \/ VnetIncrCounter(z)
    \/ RegisterNsg(z)

SpecUnlocked == UnlockedInit /\ [][UnlockedNext]_vars

\* The firewall of a run whose networks are still being built: security
\* groups are registered while VM threads open port 1 on the networks that
\* are built and close all ports.
RegNext ==
  \/ \E z \in Zones : Construct(z)
  \/ \E t \in VMs, z \in Zones : AllowPort(t, z, 1, None) /\ Budget(t)
  \/ \E t \in VMs : DisallowAllPorts(t) /\ Budget(t)
  \/ \E t \in VMs : FirewallStep(t)

SpecReg == Init /\ [][RegNext]_vars

(* ------------------- claims about the network topology ---------------- *)

HolderNames == {Holders[j] : j \in 1..Len(Holders)}

Issued(z, k) == hist.issued[<<z, k>>] > 0

\* C2: every GetResourceGroup call of the run, from whichever constructor and
\* whichever zone's thread, returns the same AzureResourceGroup object, and
\* only one such object is ever constructed.
C2_OneResourceGroup ==
  /\ num_groups <= 1
  /\ \A z1, z2 \in Zones : \A h1, h2 \in HolderNames :
       (net[z1].rg[h1] # None /\ net[z2].rg[h2] # None)
         => net[z1].rg[h1] = net[z2].rg[h2]

\* C2 witness: every zone's network is built, so all the GetResourceGroup
\* calls of the run have returned.
C2_Witness ==
  /\ \A z \in Zones : net[z].pc = "built"
  /\ \A z \in Zones : \A h \in HolderNames : net[z].rg[h] = 1

\* C6: a create command of AzureNetwork.Create is issued only once the
\* statement before it has completed (its handle's created flag is set), in
\* the order group, storage account, vnet, subnet, nsg, attach.
C6_CreateOrder ==
  \A z \in Zones :
    /\ Issued(z, "storage") => GroupOf(z) \in created
    /\ Issued(z, "vnet") => <<"storage", z>> \in created
    /\ Issued(z, "subnet") => <<"vnet", z>> \in created
    /\ Issued(z, "nsg") => <<"subnet", z>> \in created
    /\ Issued(z, "attach") => <<"nsg", z>> \in created

\* C6 witness: a Create that ran all six statements to the end.
C6_Witness ==
  \E z \in Zones : net[z].pc = "created" /\ hist.ok[<<z, "attach">>] = 1

\* C7: the delete commands of AzureNetwork.Delete are issued in the order
\* subnet, nsg, vnet, storage account, group.
C7_DeleteOrder ==
  \A z \in Zones :
    /\ <<z, "nsg">> \in hist.deleted => <<z, "subnet">> \in hist.deleted
    /\ <<z, "vnet">> \in hist.deleted => <<z, "nsg">> \in hist.deleted
    /\ <<z, "storage">> \in hist.deleted => <<z, "vnet">> \in hist.deleted
    /\ <<z, "group">> \in hist.deleted => <<z, "storage">> \in hist.deleted

\* C7 witness: a network that was created in full and has run Delete to the
\* end.
C7_Witness ==
  \E z \in Zones :
    /\ net[z].pc = "deleted"
    /\ hist.ok[<<z, "attach">>] = 1
    /\ \A j \in 1..Len(DeleteSeq) : <<z, DeleteSeq[j]>> \in hist.deleted

\* C8 (as claimed): in a run whose networks were all created before the first
\* Delete began, when a network is about to issue the group delete command
\* nothing that lives in the group exists at the provider any more.
C8_GroupDeletedLast ==
  (/\ hist.orderly
   /\ \A z \in Zones : hist.ok[<<z, "attach">>] >= 1
   /\ \E z \in Zones : /\ net[z].pc = "d_issue"
                        /\ DeleteSeq[net[z].i] = "group"
                        /\ az.group)
    => az.res = {}

GroupCreatesOk(zs) ==
  LET RECURSIVE Sum(_)
      Sum(S) == IF S = {} THEN 0
                ELSE LET z == CHOOSE x \in S : TRUE
                     IN hist.ok[<<z, "group">>] + Sum(S \ {z})
  IN Sum(zs)

\* C9 (as claimed): over the whole run at most one group create command
\* takes effect (a command that failed and was retried is not counted), and
\* at most one group delete command finds a group to delete.
C9_GroupOnce ==
  /\ GroupCreatesOk(Zones) <= 1
  /\ hist.group_deletes <= 1

HasVnetNum(z) ==
  \/ net[z].pc \in {"register", "release", "built"}
  \/ net[z].pc \in {"g_try", "g_new"} /\ net[z].i > 3

C11_Step ==
  /\ num_vnets' >= num_vnets
  /\ \A z \in Zones : HasVnetNum(z) =>
       (HasVnetNum(z)' /\ net'[z].vnet_num = net[z].vnet_num)
  /\ \A z1, z2 \in Zones :
       (z1 # z2 /\ HasVnetNum(z1)' /\ HasVnetNum(z2)')
         => net'[z1].vnet_num # net'[z2].vnet_num
  /\ (\A z \in Zones : HasVnetNum(z)')
       => {net'[z].vnet_num : z \in Zones} = 0..(NumZones - 1)

\* C11: with the constructors of the zones' virtual networks running side by
\* side, the counter num_vnets never decreases, an assigned vnet_num (the
\* second byte of the address space 10.<vnet_num>.0.0/16) never changes, no
\* two virtual networks have the same vnet_num, and once all NumZones are
\* constructed their vnet_nums are exactly 0..NumZones-1.
C11_DistinctAddressSpaces == [][C11_Step]_vars

\* C11 witness: every virtual network is constructed, and the one of zone 1
\* did not get the first address space: the constructors did not run in
\* the order of the zones.
C11_Witness ==
  /\ \A z \in Zones : HasVnetNum(z)
  /\ net[1].vnet_num # 0
  /\ num_vnets = NumZones

\* The Create of zone z's network gave up: its last statement never
\* succeeded.
CreateFailed(z) ==
  /\ net[z].pc \notin {"new", "g_try", "g_new", "v_acq", "v_read", "v_incr",
                        "register", "release", "built", "c_check", "c_issue",
                        "c_post", "c_attach", "created"}
  /\ hist.ok[<<z, "attach">>] = 0

\* The delete commands zone z has issued are the first m of DeleteSeq.
DeletedPrefix(z, m) ==
  {k \in Steps \cup {"subnet"} : <<z, k>> \in hist.deleted}
    = {DeleteSeq[j] : j \in 1..m}

C15_Step ==
  \A z \in Zones : CreateFailed(z) =>
    /\ net[z].pc \in {"create_failed", "d_issue", "deleted"}
    /\ net[z].pc = "create_failed" => DeletedPrefix(z, 0)
    /\ net[z].pc = "d_issue" => DeletedPrefix(z, net[z].i - 1)
    /\ net[z].pc = "deleted" => DeletedPrefix(z, Len(DeleteSeq))
    /\ (net[z].pc = "d_issue" /\ net'[z] # net[z]) =>
         /\ <<z, DeleteSeq[net[z].i]>> \in hist'.deleted
         /\ IF net[z].i < Len(DeleteSeq)
              THEN net'[z].pc = "d_issue" /\ net'[z].i = net[z].i + 1
              ELSE net'[z].pc = "deleted"

\* C15: after a Create that gave up, at whichever statement, Delete issues
\* the delete commands of subnet, nsg, vnet, storage account and group in
\* that order and runs to its end: a command that finds nothing to delete
\* raises nothing and the next one follows.
C15_DeleteAfterFailedCreate == [][C15_Step]_vars

\* C15 witness: a network none of whose create commands ever succeeded has
\* run Delete to the end, all five delete commands issued.
C15_Witness ==
  \E z \in Zones :
    /\ net[z].pc = "deleted"
    /\ \A k \in Steps : hist.ok[<<z, k>>] = 0
    /\ hist.issued[<<z, "group">>] = MaxAttempts
    /\ \A j \in 1..Len(DeleteSeq) : <<z, DeleteSeq[j]>> \in hist.deleted

(* ----------------- claims about the security-group rules -------------- *)

Pairs == (1..MaxPort) \X (1..MaxPort)

RECURSIVE SumOver(_, _)
SumOver(f, S) ==
  IF S = {} THEN 0
  ELSE LET x == CHOOSE y \in S : TRUE IN f[x] + SumOver(f, S \ {x})

\* The rule-creation commands issued on security group n for the range key.
CreatesFor(n, key) ==
  SumOver(fh.creates[n],
          {r \in DOMAIN fh.creates[n] : r.name = RuleName(key)})

\* An AllowPort call for the range key is in progress on security group n.
InFlight(n, key) ==
  \E t \in VMs :
    /\ fw[t].pc \in {"a_lock", "a_crit", "a_issue"}
    /\ fw[t].nsg = n
    /\ <<fw[t].start_port, EndPort(fw[t].start_port, fw[t].end_port)>> = key

\* DisallowAllPorts has reached the rules of security group n.
DisallowSeen(n) ==
  \/ fh.deletes[n] > 0
  \/ fh.denies[n] > 0
  \/ fh.closed[n] > 0
  \/ \E t \in VMs : fw[t].nsg = n /\ fw[t].pc \in {"d_loop", "d_deny"}

\* C1: on one security group that only AllowPort calls have touched, however
\* the calls of the callers interleave: at most one rule-creation command is
\* ever issued for a range; once every call for a range that was asked for
\* has ended, exactly one command was issued for it and the table holds its
\* one entry; a range nobody asked for has no command and no entry.
C1_OneRulePerRange ==
  \A n \in Zones : ~DisallowSeen(n) =>
    \A key \in Pairs :
      /\ CreatesFor(n, key) <= 1
      /\ (key \in fh.requested[n] /\ ~InFlight(n, key)) =>
           /\ CreatesFor(n, key) = 1
           /\ key \in DOMAIN rules[n]
           /\ rules[n][key] = RuleName(key)
      /\ key \notin fh.requested[n] =>
           /\ CreatesFor(n, key) = 0
           /\ key \notin DOMAIN rules[n]

\* C1 witness: a range was asked for again after its entry was in the table,
\* every call for it has ended, and one command was issued.
C1_Witness ==
  \E n \in Zones, key \in Pairs :
    /\ ~DisallowSeen(n)
    /\ key \in fh.dups[n]
    /\ ~InFlight(n, key)
    /\ CreatesFor(n, key) = 1

\* C3: with the k-th distinct range of the calls being (k, k), every allow
\* rule creation command issued carries priority 100 + (k - 1), and every
\* such priority is in 100..4094.
C3_DensePriorities ==
  /\ \A r \in DOMAIN fh.creates[1] :
       /\ r.priority = FirstPriority + (r.name[2] - 1)
       /\ r.priority >= FirstPriority
       /\ r.priority < DenyAllPriority
  /\ fw[1].pc = "a_issue" =>
       /\ fw[1].rule_priority = FirstPriority + (fw[1].start_port - 1)
       /\ fw[1].rule_priority < DenyAllPriority

\* C3 witness: the commands of the first ranges and of the last range the
\* priorities allow have been issued.
C3_Witness ==
  \/ /\ [name |-> RuleName(<<1, 1>>), priority |-> FirstPriority]
          \in DOMAIN fh.creates[1]
     /\ [name |-> RuleName(<<3, 3>>), priority |-> FirstPriority + 2]
          \in DOMAIN fh.creates[1]
     /\ Cardinality(DOMAIN fh.creates[1]) = 3
  \/ /\ [name |-> RuleName(<<Capacity, Capacity>>),
          priority |-> DenyAllPriority - 1] \in DOMAIN fh.creates[1]
     /\ Cardinality(DOMAIN fh.creates[1]) = Capacity

\* What the step of AllowPort under the lock does to a table of 3995 ranges.
C4_Step ==
  (fw[1].pc = "a_crit" /\ Cardinality(DOMAIN rules[1]) = Capacity) =>
    /\ fw'[1].pc = "idle"
    /\ rules' = rules
    /\ fh'.creates = fh.creates
    /\ azr' = azr
    /\ IF <<fw[1].start_port, fw[1].start_port>> \in DOMAIN rules[1]
         THEN fh'.too_many = fh.too_many
         ELSE fh'.too_many[1]

\* C4: when the table of a security group holds 3995 ranges, AllowPort for
\* a further range ends with ValueError, issues no rule-creation command and
\* leaves the table as it is; AllowPort for a range in the table returns
\* without a command or a change.
C4_FullTable == [][C4_Step]_vars

\* C4 witness: ValueError was raised on a table of 3995 ranges, and the call
\* has ended.
C4_Witness ==
  /\ fh.too_many[1]
  /\ Cardinality(DOMAIN rules[1]) = Capacity
  /\ Cardinality(DOMAIN fh.creates[1]) = Capacity
  /\ fw[1].pc = "idle"

\* What a step may do to the rules DisallowAllPorts has closed.
C5_Step ==
  \A n \in Zones :
    /\ (\E t \in VMs : /\ fw[t].nsg = n
                        /\ fw[t].pc \in {"d_loop", "d_deny"}
                        /\ fw'[t].pc = "b_next")
         => (rules'[n] = <<>> /\ have_deny_all_rule'[n])
    /\ fh.closed[n] > 0
         => /\ fh'.deletes[n] = fh.deletes[n]
            /\ fh'.denies[n] = fh.denies[n]

\* C5: when DisallowAllPorts returns on a security group the rule table is
\* empty and the deny-all flag is set; from then on, until AllowPort puts a
\* range in the table, no rule-delete command and no DenyAll creation
\* command is issued on that security group, whichever calls are made.
C5_DisallowIdempotent == [][C5_Step]_vars

\* C5 witness: DisallowAllPorts has returned twice on a security group with
\* no range put in the table in between; the first of the two deleted a
\* rule and created the DenyAll rule.
C5_Witness ==
  \E n \in Zones :
    /\ fh.closed[n] >= 2
    /\ fh.deletes[n] >= 1
    /\ fh.denies[n] = 1
    /\ rules[n] = <<>>
    /\ have_deny_all_rule[n]

\* C12 as claimed: in every state, a security group whose deny-all flag is
\* set has an empty rule table.
C12_FlagImpliesEmpty ==
  \A n \in Zones : have_deny_all_rule[n] => rules[n] = <<>>

C12_Step ==
  \A n \in Zones :
    /\ (have_deny_all_rule'[n] /\ ~have_deny_all_rule[n]) => rules'[n] = <<>>
    /\ (have_deny_all_rule'[n] /\ fh'.closed[n] > 0) => rules'[n] = <<>>

\* C12: the rule table of a security group is empty in the state where its
\* deny-all flag becomes set, and stays empty while the flag is set until an
\* AllowPort call puts a range in it.
C12_EmptyUntilAllowPort == [][C12_Step]_vars

\* C12 witness: DisallowAllPorts deleted a rule, emptied the table and set
\* the flag, and nothing was put in the table since.
C12_Witness ==
  \E n \in Zones :
    /\ have_deny_all_rule[n]
    /\ fh.closed[n] = 1
    /\ fh.deletes[n] >= 1
    /\ rules[n] = <<>>

\* C13 as claimed: the DenyAll creation command is issued at most once on a
\* security group.
C13_DenyIssuedOnce ==
  \A n \in Zones : fh.denies[n] <= 1

C13_Step ==
  \A n \in Zones :
    /\ have_deny_all_rule[n] =>
         (have_deny_all_rule'[n] /\ fh'.denies[n] = fh.denies[n])
    /\ (have_deny_all_rule'[n] /\ ~have_deny_all_rule[n]) =>
         (fh'.denies[n] = fh.denies[n] + 1 /\ DenyAllName \in {r.name : r \in azr'[n]})

\* C13: once the deny-all flag of a security group is set it is never unset
\* and no DenyAll creation command is issued on that security group again;
\* the flag becomes set only in the step in which a DenyAll creation command
\* succeeds, so at most one such command succeeds.
C13_DenyAllOneWay == [][C13_Step]_vars

\* C13 witness: a first DenyAll command failed, a second one succeeded and
\* set the flag, and DisallowAllPorts has passed over the security group
\* once more without a third.
C13_Witness ==
  \E n \in Zones :
    /\ have_deny_all_rule[n]
    /\ fh.denies[n] = 2
    /\ fh.closed[n] >= 2

\* The next step of thread t's AzureFirewall.DisallowAllPorts is its
\* return: the loop over ALL_NSGS is at its end and raises nothing.
AboutToReturn(t) ==
  /\ fw[t].pc = "b_next"
  /\ fw[t].iter = {}
  /\ Cardinality(ALL_NSGS) = fw[t].size

C14_Step ==
  /\ ALL_NSGS \subseteq ALL_NSGS'
  /\ \A t \in VMs : (/\ fw[t].pc = "b_next"
                      /\ fw'[t].pc = "idle"
                      /\ fh'.set_changed = fh.set_changed) =>
       \A n \in ALL_NSGS' :
         /\ have_deny_all_rule'[n]
         /\ fh'.closed[n] > 0 => rules'[n] = <<>>

AllowPortStepOf(t) ==
  /\ fw'[t] # fw[t]
  /\ \/ fw[t].pc = "idle" /\ fw'[t].pc = "a_lock"
     \/ fw[t].pc \in {"a_lock", "a_crit", "a_issue"}

C16_Step ==
  \A t \in VMs : AllowPortStepOf(t) =>
    LET n == IF fw[t].pc = "idle" THEN fw'[t].nsg ELSE fw[t].nsg IN
      /\ ALL_NSGS' = ALL_NSGS
      /\ have_deny_all_rule' = have_deny_all_rule
      /\ \A m \in Zones \ {n} :
           /\ rules'[m] = rules[m]
           /\ rules_lock'[m] = rules_lock[m]
           /\ azr'[m] = azr[m]
           /\ fh'.creates[m] = fh.creates[m]
      /\ fw[t].pc = "idle" => rules' = rules

\* C16: no step of AzureFirewall.AllowPort for a VM on the network of zone n
\* changes ALL_NSGS, any deny-all flag, or the rule table, the lock or the
\* provider-side rules of a security group other than zone n's; the call
\* itself, before it reaches the security group, changes no table at all.
C16_AllowPortFrame == [][C16_Step]_vars

\* C16 witness: a range was put in the table of one security group and its
\* command issued, while the other security groups, none ever asked for a
\* range, are as they were built.
C16_Witness ==
  \E n \in Zones :
    /\ rules[n] # <<>>
    /\ fh.creates[n] # <<>>
    /\ \A m \in Zones \ {n} :
         /\ fh.requested[m] = {}
         /\ rules[m] = <<>>
         /\ ~have_deny_all_rule[m]
    /\ ALL_NSGS = Zones

\* Thread t is inside `with self.rules_lock` of security group n.
InWith(t, n) ==
  fw[t].nsg = n /\ fw[t].pc \in {"a_crit", "d_loop", "d_deny"}

C17_Step ==
  \A n \in Zones :
    /\ \A t \in VMs : InWith(t, n) => rules_lock[n] = t
    /\ \A t \in VMs : (fw[t].nsg = n /\ fw[t].pc = "a_issue") => rules_lock[n] # t
    /\ rules'[n] # rules[n] =>
         \E t \in VMs : InWith(t, n) /\ rules_lock[n] = t /\ fw'[t] # fw[t]
    /\ (fh'.deletes[n] # fh.deletes[n] \/ fh'.denies[n] # fh.denies[n]) =>
         \E t \in VMs : /\ InWith(t, n) /\ rules_lock[n] = t /\ fw'[t] # fw[t]
                         /\ \A u \in VMs \ {t} : ~InWith(u, n)
    /\ fh'.creates[n] # fh.creates[n] =>
         \E t \in VMs : /\ fw[t].nsg = n /\ fw[t].pc = "a_issue"
                         /\ fw'[t] # fw[t] /\ rules_lock[n] # t
    /\ \A t \in VMs :
         (InWith(t, n) /\ fw[t].pc # "a_crit" /\ rules_lock'[n] # t) =>
           \/ rules'[n] = <<>>
           \/ fw'[t].pc = "idle"

\* C17: a thread inside the with statement of AllowPort or DisallowAllPorts
\* holds that security group's lock, alone; every change of a rule table and
\* every rule-delete and DenyAll command comes from the thread holding the
\* lock; DisallowAllPorts gives the lock up only with the table cleared (or
\* when an exception ends the call); and every rule-creation command of
\* AllowPort comes from a thread that has given the lock up.
C17_LockDiscipline == [][C17_Step]_vars

\* C17 witness: DisallowAllPorts has deleted a rule and holds the lock, and
\* an AllowPort call on the same security group waits for it.
C17_Witness ==
  \E t, u \in VMs :
    /\ fw[t].pc \in {"d_loop", "d_deny"}
    /\ fh.deletes[fw[t].nsg] >= 1
    /\ rules_lock[fw[t].nsg] = t
    /\ fw[u].pc = "a_lock"
    /\ fw[u].nsg = fw[t].nsg

\* Thread t is in an AllowPort or DisallowAllPorts call on security group n.
InCallOn(t, n) ==
  /\ fw[t].nsg = n
  /\ fw[t].pc \in {"a_lock", "a_crit", "a_issue", "d_lock", "d_loop", "d_deny"}

\* The names of the allow rules that exist at the provider / in the table.
ProviderAllowNames(n) == {r.name : r \in azr[n]} \ {DenyAllName}

TableNames(n) == {rules[n][key] : key \in DOMAIN rules[n]}

\* C18 (as claimed, its second half): whenever no AllowPort or
\* DisallowAllPorts call is in progress on a security group, every allow
\* rule that exists at the provider is in the rule table.
C18_NoUntrackedRule ==
  \A n \in Zones :
    (\A t \in VMs : ~InCallOn(t, n)) => ProviderAllowNames(n) \subseteq TableNames(n)

\* C19 (as claimed): no two rules that exist at the provider on one security
\* group carry the same priority.
C19_DistinctPriorities ==
  \A n \in Zones : \A r1, r2 \in azr[n] :
    r1 # r2 => r1.priority # r2.priority

\* C20 (as claimed): a rule-creation command that fails leaves no entry in
\* the rule table. So on a security group that only AllowPort calls have
\* touched, every range in the table whose calls have all ended has its
\* rule at the provider.
C20_FailedCreateLeavesNoEntry ==
  \A n \in Zones : ~DisallowSeen(n) =>
    \A key \in DOMAIN rules[n] :
      ~InFlight(n, key) => rules[n][key] \in ProviderAllowNames(n)

====
